---- MODULE Spec2Model ----
(***************************************************************************)
(* Model of step2_configurable_scan.py: the configurable ZAP scan driver.  *)
(* One run of main(): configuration, readiness polling, target access,     *)
(* spider scan, optional active scan, alert retrieval, risk aggregation,   *)
(* threshold gate, report writing, process exit.                           *)
(*                                                                         *)
(* The remote scanner, the HTTP layer, the file system and the user's      *)
(* interrupt key are the environment: every request draws its outcome      *)
(* from a small set.  Console output is not modelled.                      *)
(***************************************************************************)
EXTENDS Integers, Sequences, FiniteSets, TLC

VARIABLES
    pc,                  \* position of the single thread of control
    env,                 \* the process environment read by ScanConfig
    config,              \* the validated ScanConfig (NoConfig before)
    exitCode,            \* the process exit code (NotExited while running)
    raised,              \* what reached main's handlers: [type, at]
    attempt,             \* wait_for_zap: loop index of range(30)
    wz_requests,         \* wait_for_zap: readiness requests issued
    wz_sleeps,           \* wait_for_zap: time.sleep(2) calls made
    wz_got200,           \* wait_for_zap: some response had status 200
    zap_ready,           \* result of wait_for_zap ("pending" before)
    unavailable_reports, \* times wait_for_zap reported exhaustion
    ops,                 \* scanner operations issued so far (names)
    clock,               \* seconds since run_spider_scan took start_time
    progress,            \* run_spider_scan: the body's progress reading
    stop_count,          \* spider stop requests issued
    urls,                \* what run_spider_scan returned
    alerts_fetches,      \* times the alert listing was requested
    alerts,              \* the finding list returned by get_alerts
    risk_counts,         \* result of analyze_alerts
    scan_passed,         \* result of display_results
    writes_attempted,    \* report files whose write was attempted
    writes_failed,       \* report files whose write raised
    summary,             \* content of the written summary JSON
    stages,              \* the stages completed so far, in order
    analysis,            \* analyze_alerts applied on its own: its outcome
    gate_result,         \* check_thresholds applied on its own: its result
    extended,            \* the finding list with one untagged finding added
    analysis_plus,       \* analyze_alerts applied to `extended`
    other_counts,        \* RiskCounts differing in Informational alone
    gate_other,          \* check_thresholds applied to `other_counts`
    cond_status          \* int(status) as the loop condition last read it

vars == << pc, env, config, exitCode, raised, attempt, wz_requests, wz_sleeps,
           wz_got200, zap_ready, unavailable_reports, ops, clock, progress,
           stop_count, urls, alerts_fetches, alerts, risk_counts, scan_passed,
           writes_attempted, writes_failed, summary, stages, analysis,
           gate_result, extended, analysis_plus, other_counts, gate_other,
           cond_status >>

(***************************************************************************)
(* Bounds of the model.                                                    *)
(***************************************************************************)
MaxAlerts == 2          \* longest finding list the scanner returns in a run
MaxClock == 304         \* the clock saturates here (unlimited crawls)
MaxPureAlerts == 4      \* longest finding list given to analyze_alerts alone
MaxCount == 10          \* largest per-severity count given to the gate alone

(***************************************************************************)
(* Program constants.                                                      *)
(***************************************************************************)
ATTEMPTS == 30              \* range(30)
HTTP_OK == 200              \* response.status_code == 200
SPIDER_POLL_SECONDS == 2    \* time.sleep(2) in the spider loop
SECONDS_PER_MINUTE == 60    \* spider_max_duration * 60
DONE == 100                 \* progress at which polling ends
DEFAULT_MAX_HIGH == 0
DEFAULT_MAX_MEDIUM == 5
DEFAULT_MAX_LOW == 999
DEFAULT_PORT == 8080
SHOWN_HIGH == 3             \* high_risk_alerts[:3]
EXIT_SUCCESS == 0
EXIT_GATE_FAILED == 1
EXIT_ERROR == 2
EXIT_INTERRUPT == 130

NotExited == 0 - 1
NoConfig == [valid |-> FALSE]
NoSummary == [written |-> FALSE]
NoRaise == [type |-> "none", at |-> "none"]
NoAnalysis == [ok |-> FALSE, error |-> "none"]
NoGate == [passed |-> FALSE, checks |-> << >>]

(***************************************************************************)
(* ScanConfig: environment variables, int() conversion, validation.        *)
(* An environment value is unset, a decimal integer, or other text.        *)
(***************************************************************************)
Unset == [isset |-> FALSE, numeric |-> FALSE, val |-> 0, text |-> ""]
Text(t) == [isset |-> TRUE, numeric |-> FALSE, val |-> 0, text |-> t]
Num(n) == [isset |-> TRUE, numeric |-> TRUE, val |-> n, text |-> ""]

\* os.getenv(key, default)
get_optional(value, default) == IF value.isset THEN value ELSE default

\* int(s): the integer, or ValueError for text that is no decimal integer
int_ok(value) == value.numeric

\* str.startswith(('http://', 'https://')), on the URL's scheme prefix
startswith_http(url) == url \in {"http://target", "https://target"}

\* ScanConfig with the URL format check of _validate left out.
ScanConfig_no_url_check(e) ==
    LET scan_type == get_optional(e.ZAP_SCAN_TYPE, Text("standard"))
        port == get_optional(e.ZAP_PORT, Num(DEFAULT_PORT))
        high == get_optional(e.ZAP_MAX_HIGH, Num(DEFAULT_MAX_HIGH))
        medium == get_optional(e.ZAP_MAX_MEDIUM, Num(DEFAULT_MAX_MEDIUM))
        low == get_optional(e.ZAP_MAX_LOW, Num(DEFAULT_MAX_LOW))
    IN  IF ~e.ZAP_TARGET_URL.isset \/ e.ZAP_TARGET_URL.text = ""
          THEN [valid |-> FALSE, error |-> "SystemExit"]
        ELSE IF ~int_ok(port) \/ ~int_ok(high) \/ ~int_ok(medium) \/ ~int_ok(low)
          THEN [valid |-> FALSE, error |-> "ValueError"]
        ELSE IF scan_type.text \notin {"quick", "standard", "full"}
          THEN [valid |-> FALSE, error |-> "SystemExit"]
        ELSE IF high.val < 0 \/ medium.val < 0 \/ low.val < 0
          THEN [valid |-> FALSE, error |-> "SystemExit"]
        ELSE [valid |-> TRUE,
              target_url |-> e.ZAP_TARGET_URL.text,
              scan_type |-> scan_type.text,
              zap_port |-> port.val,
              max_high |-> high.val,
              max_medium |-> medium.val,
              max_low |-> low.val]

\* ScanConfig.__init__ with _get_required and _validate: the configuration,
\* or the way construction ends (SystemExit(2) or ValueError).
ScanConfig(e) ==
    LET scan_type == get_optional(e.ZAP_SCAN_TYPE, Text("standard"))
        port == get_optional(e.ZAP_PORT, Num(DEFAULT_PORT))
        high == get_optional(e.ZAP_MAX_HIGH, Num(DEFAULT_MAX_HIGH))
        medium == get_optional(e.ZAP_MAX_MEDIUM, Num(DEFAULT_MAX_MEDIUM))
        low == get_optional(e.ZAP_MAX_LOW, Num(DEFAULT_MAX_LOW))
    IN  IF ~e.ZAP_TARGET_URL.isset \/ e.ZAP_TARGET_URL.text = ""
          THEN [valid |-> FALSE, error |-> "SystemExit"]
        ELSE IF ~int_ok(port) \/ ~int_ok(high) \/ ~int_ok(medium) \/ ~int_ok(low)
          THEN [valid |-> FALSE, error |-> "ValueError"]
        ELSE IF scan_type.text \notin {"quick", "standard", "full"}
          THEN [valid |-> FALSE, error |-> "SystemExit"]
        ELSE IF ~startswith_http(e.ZAP_TARGET_URL.text)
          THEN [valid |-> FALSE, error |-> "SystemExit"]
        ELSE IF high.val < 0 \/ medium.val < 0 \/ low.val < 0
          THEN [valid |-> FALSE, error |-> "SystemExit"]
        ELSE [valid |-> TRUE,
              target_url |-> e.ZAP_TARGET_URL.text,
              scan_type |-> scan_type.text,
              zap_port |-> port.val,
              max_high |-> high.val,
              max_medium |-> medium.val,
              max_low |-> low.val]

\* ScanTypeConfig.TYPES
TYPES ==
    [quick |-> [spider_max_depth |-> 1, spider_max_duration |-> 2,
                active_scan |-> FALSE],
     standard |-> [spider_max_depth |-> 2, spider_max_duration |-> 5,
                   active_scan |-> TRUE],
     full |-> [spider_max_depth |-> 0, spider_max_duration |-> 0,
               active_scan |-> TRUE]]

\* ScanTypeConfig.get(config.scan_type)
scan_type_config == TYPES[config.scan_type]

\* The environments a run may start in.
UrlEnv == {Unset, Text(""), Text("ftp://target"), Text("http://target"),
           Text("https://target")}
ScanTypeEnv == {Unset, Text("quick"), Text("full"), Text("bogus")}
PortEnv == {Unset, Text("http")}
HighEnv == {Unset, Text("none"), Num(0 - 1), Num(1)}
MediumEnv == {Unset, Text("few"), Num(0 - 1), Num(0)}
LowEnv == {Unset, Text("many"), Num(0 - 1), Num(0)}
Environments ==
    [ZAP_TARGET_URL : UrlEnv, ZAP_SCAN_TYPE : ScanTypeEnv, ZAP_PORT : PortEnv,
     ZAP_MAX_HIGH : HighEnv, ZAP_MAX_MEDIUM : MediumEnv, ZAP_MAX_LOW : LowEnv]

(***************************************************************************)
(* Findings.  A finding is a dict from the scanner: its 'risk' key may be  *)
(* absent or hold any text; `complete` says whether the keys 'alert',      *)
(* 'url' and 'description' are all present.                                *)
(***************************************************************************)
Absent == "<absent>"
Buckets == {"High", "Medium", "Low", "Informational"}
Finding(risk, complete) == [risk |-> risk, complete |-> complete]

\* get_risk_default with another bucket as the default.
get_risk_default_low(alert) ==
    IF alert.risk = Absent THEN "Low" ELSE alert.risk

\* alert.get('risk', 'Informational')
get_risk_default(alert) ==
    IF alert.risk = Absent THEN "Informational" ELSE alert.risk

\* alert.get('risk') == 'High'
is_high(alert) == alert.risk = "High"

ZeroCounts == [b \in Buckets |-> 0]

\* risk_counts[risk] += 1 for each alert in turn; a risk that is no key of
\* risk_counts raises KeyError.
RECURSIVE count_from(_, _, _)
count_from(alerts_, i, counts) ==
    IF i > Len(alerts_) THEN [ok |-> TRUE, counts |-> counts]
    ELSE LET risk == get_risk_default(alerts_[i])
         IN  IF risk \in DOMAIN counts
               THEN count_from(alerts_, i + 1,
                               [counts EXCEPT ![risk] = counts[risk] + 1])
             ELSE [ok |-> FALSE, error |-> "KeyError"]

analyze_alerts(alerts_) == count_from(alerts_, 1, ZeroCounts)

\* threshold_check with the comparison made strict.
threshold_check_strict(level, count, max) ==
    [level |-> level, count |-> count, max |-> max, passed |-> count < max]

\* One entry of check_thresholds' list.
threshold_check(level, count, max) ==
    [level |-> level, count |-> count, max |-> max, passed |-> count <= max]

\* check_thresholds with a fourth check, on the Informational count.
check_thresholds_gating_info(counts, cfg) ==
    LET checks == << threshold_check("High", counts["High"], cfg.max_high),
                     threshold_check("Medium", counts["Medium"], cfg.max_medium),
                     threshold_check("Low", counts["Low"], cfg.max_low),
                     threshold_check("Informational", counts["Informational"],
                                     cfg.max_low) >>
    IN  [passed |-> \A i \in DOMAIN checks : checks[i].passed,
         checks |-> checks]

\* check_thresholds(risk_counts, config): (all_passed, checks)
check_thresholds(counts, cfg) ==
    LET checks == << threshold_check("High", counts["High"], cfg.max_high),
                     threshold_check("Medium", counts["Medium"], cfg.max_medium),
                     threshold_check("Low", counts["Low"], cfg.max_low) >>
    IN  [passed |-> \A i \in DOMAIN checks : checks[i].passed,
         checks |-> checks]

\* [a for a in alerts if a.get('risk') == 'High']
high_risk_alerts(alerts_) == SelectSeq(alerts_, is_high)

\* seq[:n]
Take(seq, n) == SubSeq(seq, 1, IF Len(seq) < n THEN Len(seq) ELSE n)

\* display_results: alert['alert'], alert['url'], alert['description'] of
\* the first three high-risk alerts (KeyError when one is missing), then the
\* threshold check, whose overall result is returned.
display_results(alerts_, counts, cfg) ==
    LET shown == Take(high_risk_alerts(alerts_), SHOWN_HIGH)
    IN  IF \E i \in DOMAIN shown : ~shown[i].complete
          THEN [ok |-> FALSE, error |-> "KeyError"]
        ELSE [ok |-> TRUE, passed |-> check_thresholds(counts, cfg).passed]

\* build_summary with counts of its own in place of the ones passed in.
build_summary_recounted(alerts_, cfg, counts, passed) ==
    LET high == high_risk_alerts(alerts_)
    IN  IF \E i \in DOMAIN high : ~high[i].complete
          THEN [ok |-> FALSE, error |-> "KeyError"]
        ELSE [ok |-> TRUE,
              summary |-> [written |-> TRUE,
                           target_url |-> cfg.target_url,
                           scan_type |-> cfg.scan_type,
                           total_alerts |-> Len(alerts_),
                           risk_counts |-> ZeroCounts,
                           thresholds |-> [max_high |-> cfg.max_high,
                                           max_medium |-> cfg.max_medium,
                                           max_low |-> cfg.max_low],
                           passed |-> passed,
                           high_risk_alerts |-> Len(high)]]

\* The summary dict of save_reports, or KeyError from a high-risk alert
\* that lacks a key.
build_summary(alerts_, cfg, counts, passed) ==
    LET high == high_risk_alerts(alerts_)
    IN  IF \E i \in DOMAIN high : ~high[i].complete
          THEN [ok |-> FALSE, error |-> "KeyError"]
        ELSE [ok |-> TRUE,
              summary |-> [written |-> TRUE,
                           target_url |-> cfg.target_url,
                           scan_type |-> cfg.scan_type,
                           total_alerts |-> Len(alerts_),
                           risk_counts |-> counts,
                           thresholds |-> [max_high |-> cfg.max_high,
                                           max_medium |-> cfg.max_medium,
                                           max_low |-> cfg.max_low],
                           passed |-> passed,
                           high_risk_alerts |-> Len(high)]]

\* json.dump of an int: a JSON number; of a bool: the literal true or false
json_number(n) == [number |-> n]
json_bool(b) == IF b THEN "true" ELSE "false"

\* json.dump(summary, f, indent=2): the text of the summary file
json_dump(d) ==
    [written |-> TRUE,
     target_url |-> d.target_url,
     scan_type |-> d.scan_type,
     total_alerts |-> json_number(d.total_alerts),
     risk_counts |-> [b \in DOMAIN d.risk_counts |-> json_number(d.risk_counts[b])],
     thresholds |-> [t \in DOMAIN d.thresholds |-> json_number(d.thresholds[t])],
     passed |-> json_bool(d.passed),
     high_risk_alerts |-> d.high_risk_alerts]

(***************************************************************************)
(* The environment's answers.                                              *)
(***************************************************************************)
\* requests.get on the version endpoint: a request error (connection
\* refused, timeout), or a response with a status code and a body that
\* response.json() parses to a dict or fails on.
Responses ==
    {[error |-> TRUE, status |-> 0, json_ok |-> FALSE],
     [error |-> FALSE, status |-> 503, json_ok |-> FALSE],
     [error |-> FALSE, status |-> HTTP_OK, json_ok |-> TRUE],
     [error |-> FALSE, status |-> HTTP_OK, json_ok |-> FALSE]}

\* A scanner API call returns or raises.
CallOutcomes == {"ok", "error"}

\* spider.status / ascan.status: the call raises, or returns a progress
\* figure, or returns text that is no number.
ProgressValues == {0, 50, DONE}
StatusReplies ==
    {[kind |-> "error", value |-> 0], [kind |-> "text", value |-> 0]}
    \cup {[kind |-> "number", value |-> v] : v \in ProgressValues}

\* Seconds a status request and the loop's bookkeeping add to the sleep.
Latencies == {0, 60}

\* spider.results
UrlResults == {<< >>, << "http://target/a" >>}

\* core.alerts: finding lists of at most n findings
FindingKinds ==
    {Finding("High", TRUE), Finding("High", FALSE), Finding("Medium", TRUE),
     Finding("Low", TRUE), Finding("Informational", TRUE),
     Finding(Absent, TRUE), Finding("Critical", TRUE)}
AlertLists(n) == UNION {[1..k -> FindingKinds] : k \in 0..n}

ReportFiles == {"html", "json", "summary"}

(***************************************************************************)
(* Leaving main: sys.exit and the two except clauses.                      *)
(***************************************************************************)
\* main_handlers without the KeyboardInterrupt clause.
main_handlers_one_clause(type) == EXIT_ERROR

\* except KeyboardInterrupt: sys.exit(130); except Exception: sys.exit(2)
main_handlers(type) ==
    IF type = "KeyboardInterrupt" THEN EXIT_INTERRUPT ELSE EXIT_ERROR

Exit(code, type) ==
    /\ pc' = "exited"
    /\ exitCode' = code
    /\ raised' = [type |-> type, at |-> pc]

\* sys.exit(code): SystemExit passes both except clauses
sys_exit(code) == Exit(code, "SystemExit")

\* an exception propagating out of the try block
Raise(type) == Exit(main_handlers(type), type)

Goto(next) ==
    /\ pc' = next
    /\ UNCHANGED << exitCode, raised >>

cfgVars == << env, config >>
wzVars == << attempt, wz_requests, wz_sleeps, wz_got200, zap_ready,
             unavailable_reports >>
spiderVars == << clock, progress, stop_count, urls, cond_status >>
resultVars == << alerts_fetches, alerts, risk_counts, scan_passed >>
reportVars == << writes_attempted, writes_failed, summary >>
pureVars == << analysis, gate_result, extended, analysis_plus, other_counts,
              gate_other >>

Min(a, b) == IF a < b THEN a ELSE b

(***************************************************************************)
(* Initial state: main() is about to enter its try block.                  *)
(***************************************************************************)
InitLocals ==
    /\ exitCode = NotExited
    /\ raised = NoRaise
    /\ attempt = 0
    /\ wz_requests = 0
    /\ wz_sleeps = 0
    /\ wz_got200 = FALSE
    /\ zap_ready = "pending"
    /\ unavailable_reports = 0
    /\ ops = {}
    /\ clock = 0
    /\ progress = [kind |-> "number", value |-> 0]
    /\ stop_count = 0
    /\ urls = << >>
    /\ alerts_fetches = 0
    /\ scan_passed = FALSE
    /\ writes_attempted = {}
    /\ writes_failed = {}
    /\ summary = NoSummary
    /\ stages = << >>
    /\ analysis = NoAnalysis
    /\ gate_result = NoGate
    /\ extended = << >>
    /\ analysis_plus = NoAnalysis
    /\ other_counts = ZeroCounts
    /\ gate_other = NoGate
    /\ cond_status = 0

Init ==
    /\ pc = "start"
    /\ env \in Environments
    /\ config = NoConfig
    /\ alerts = << >>
    /\ risk_counts = ZeroCounts
    /\ InitLocals

(***************************************************************************)
(* main: configuration.                                                    *)
(***************************************************************************)
\* config = ScanConfig(); scan_type_config = ScanTypeConfig.get(...)
LoadConfig ==
    /\ pc = "start"
    /\ LET c == ScanConfig(env)
       IN  IF c.valid
             THEN /\ config' = c
                  /\ stages' = Append(stages, "config")
                  /\ Goto("wz_request")
           ELSE /\ IF c.error = "SystemExit"
                     THEN sys_exit(EXIT_ERROR)
                   ELSE Raise("ValueError")
                /\ UNCHANGED << config, stages >>
    /\ UNCHANGED << env, pureVars, wzVars, ops, spiderVars, resultVars, reportVars >>

(***************************************************************************)
(* wait_for_zap                                                            *)
(***************************************************************************)
\* What one readiness response does to the loop: return True, or fall
\* through to the sleep (a request error, a status other than 200, or an
\* exception from response.json() / version_data.get, all caught by
\* `except Exception: pass`).
response_ready(resp) ==
    ~resp.error /\ resp.status = HTTP_OK /\ resp.json_ok

\* One pass of the loop body up to the response: requests.get(..., timeout=5)
WaitRequest ==
    /\ pc = "wz_request"
    /\ \E resp \in Responses :
         /\ wz_requests' = wz_requests + 1
         /\ wz_got200' = (wz_got200 \/ (~resp.error /\ resp.status = HTTP_OK))
         /\ IF response_ready(resp)
              THEN /\ zap_ready' = "ready"
                   /\ Goto("wz_returned")
            ELSE /\ zap_ready' = zap_ready
                 /\ Goto("wz_sleep")
    /\ UNCHANGED << cfgVars, pureVars, attempt, wz_sleeps, unavailable_reports, ops,
                    spiderVars, resultVars, reportVars, stages >>

\* more_attempts with the bound off by one: a 31st attempt.
more_attempts_one_more(a) == a < ATTEMPTS

\* The loop's bound: another attempt follows attempt number a (0-based)
more_attempts(a) == a + 1 < ATTEMPTS

\* print("Waiting..."); time.sleep(2); next value of range(30)
WaitSleep ==
    /\ pc = "wz_sleep"
    /\ wz_sleeps' = wz_sleeps + 1
    /\ attempt' = attempt + 1
    /\ IF more_attempts(attempt) THEN Goto("wz_request") ELSE Goto("wz_exhausted")
    /\ UNCHANGED << cfgVars, pureVars, wz_requests, wz_got200, zap_ready,
                    unavailable_reports, ops, spiderVars, resultVars,
                    reportVars, stages >>

\* print("ZAP didn't start in time!"); return False
WaitExhausted ==
    /\ pc = "wz_exhausted"
    /\ zap_ready' = "unavailable"
    /\ unavailable_reports' = unavailable_reports + 1
    /\ Goto("wz_returned")
    /\ UNCHANGED << cfgVars, pureVars, attempt, wz_requests, wz_sleeps, wz_got200, ops,
                    spiderVars, resultVars, reportVars, stages >>

\* if not wait_for_zap(config): sys.exit(2)
\* The locals of wait_for_zap end with the call when the run goes on.
AfterWait ==
    /\ pc = "wz_returned"
    /\ IF zap_ready = "unavailable"
         THEN /\ sys_exit(EXIT_ERROR)
              /\ UNCHANGED << attempt, wz_requests, wz_sleeps, wz_got200, stages >>
       ELSE /\ Goto("connect")
            /\ attempt' = 0
            /\ wz_requests' = 0
            /\ wz_sleeps' = 0
            /\ wz_got200' = FALSE
            /\ stages' = Append(stages, "readiness")
    /\ UNCHANGED << cfgVars, pureVars, zap_ready, unavailable_reports, ops, spiderVars,
                    resultVars, reportVars >>

(***************************************************************************)
(* connect_to_zap, access_target                                           *)
(***************************************************************************)
\* zap = ZAPv2(proxies=...): builds the client, sends nothing
ConnectToZap ==
    /\ pc = "connect"
    /\ stages' = Append(stages, "connect")
    /\ Goto("access_target")
    /\ UNCHANGED << cfgVars, pureVars, wzVars, ops, spiderVars, resultVars, reportVars >>

\* zap.urlopen(config.target_url); time.sleep(2)
AccessTarget ==
    /\ pc = "access_target"
    /\ ops' = ops \cup {"core.urlopen"}
    /\ \E outcome \in CallOutcomes :
         IF outcome = "ok"
           THEN /\ stages' = Append(stages, "access")
                /\ Goto("spider_configure")
         ELSE /\ Raise("ConnectionError")
              /\ UNCHANGED stages
    /\ UNCHANGED << cfgVars, pureVars, wzVars, spiderVars, resultVars, reportVars >>

(***************************************************************************)
(* run_spider_scan                                                         *)
(***************************************************************************)
\* if scan_type_config['spider_max_depth'] > 0
depth_limited(stc) == stc.spider_max_depth > 0

\* max_duration = scan_type_config['spider_max_duration'] * 60
max_duration(stc) == stc.spider_max_duration * SECONDS_PER_MINUTE

\* duration_exceeded without the test for a nonzero limit.
duration_exceeded_unguarded(maxd, elapsed) == elapsed > maxd

\* duration_exceeded with the limit never reached.
duration_exceeded_never(limit, elapsed) == FALSE

\* if max_duration > 0 and elapsed > max_duration
duration_exceeded(maxd, elapsed) == maxd > 0 /\ elapsed > maxd

\* What a status call that yields no number raises: the request's own
\* error, or ValueError from int() on text
status_error(reply) ==
    IF reply.kind = "error" THEN "ConnectionError" ELSE "ValueError"

\* int(status) < 100
below_done(reply) == reply.value < DONE

\* zap.spider.set_option_max_depth(...), only for a positive depth
SpiderConfigure ==
    /\ pc = "spider_configure"
    /\ IF depth_limited(scan_type_config)
         THEN /\ ops' = ops \cup {"spider.set_option_max_depth"}
              /\ \E outcome \in CallOutcomes :
                   IF outcome = "ok" THEN Goto("spider_start")
                   ELSE Raise("ConnectionError")
       ELSE /\ ops' = ops
            /\ Goto("spider_start")
    /\ UNCHANGED << cfgVars, pureVars, wzVars, spiderVars, resultVars, reportVars, stages >>

\* scan_id = zap.spider.scan(config.target_url); start_time = time.time()
SpiderStart ==
    /\ pc = "spider_start"
    /\ ops' = ops \cup {"spider.scan"}
    /\ \E outcome \in CallOutcomes :
         IF outcome = "ok"
           THEN /\ clock' = 0
                /\ Goto("spider_cond")
         ELSE /\ clock' = clock
              /\ Raise("ConnectionError")
    /\ UNCHANGED << cfgVars, pureVars, wzVars, progress, stop_count, urls,
                    cond_status, resultVars, reportVars, stages >>

\* while int(zap.spider.status(scan_id)) < 100
SpiderCond ==
    /\ pc = "spider_cond"
    /\ ops' = ops \cup {"spider.status"}
    /\ \E reply \in StatusReplies :
         IF reply.kind # "number"
           THEN /\ Raise(status_error(reply))
                /\ UNCHANGED cond_status
         ELSE /\ cond_status' = reply.value
              /\ IF below_done(reply) THEN Goto("spider_body")
                 ELSE Goto("spider_results")
    /\ UNCHANGED << cfgVars, pureVars, wzVars, clock, progress, stop_count, urls,
                    resultVars, reportVars, stages >>

\* The loop body: progress = zap.spider.status(scan_id); elapsed = ...;
\* the duration check; time.sleep(2) when the loop goes on.
SpiderBody ==
    /\ pc = "spider_body"
    /\ \E reply \in StatusReplies :
         IF reply.kind = "error"
           THEN /\ Raise(status_error(reply))
                /\ UNCHANGED << clock, progress >>
         ELSE /\ progress' = reply
              /\ IF duration_exceeded(max_duration(scan_type_config), clock)
                   THEN /\ clock' = clock
                        /\ Goto("spider_stop")
                 ELSE /\ \E latency \in Latencies :
                           clock' = Min(clock + SPIDER_POLL_SECONDS + latency,
                                        MaxClock)
                      /\ Goto("spider_cond")
    /\ UNCHANGED << cfgVars, pureVars, wzVars, ops, stop_count, urls, cond_status,
                    resultVars, reportVars, stages >>

\* zap.spider.stop(scan_id); break
SpiderStop ==
    /\ pc = "spider_stop"
    /\ ops' = ops \cup {"spider.stop"}
    /\ stop_count' = stop_count + 1
    /\ \E outcome \in CallOutcomes :
         IF outcome = "ok" THEN Goto("spider_results") ELSE Raise("ConnectionError")
    /\ UNCHANGED << cfgVars, pureVars, wzVars, clock, progress, urls, cond_status,
                    resultVars, reportVars, stages >>

\* SpiderResults with main going on to get_alerts, past run_active_scan.
SpiderResults_then_alerts ==
    /\ pc = "spider_results"
    /\ ops' = ops \cup {"spider.results"}
    /\ \E outcome \in CallOutcomes :
         IF outcome = "ok"
           THEN /\ urls' \in UrlResults
                /\ clock' = 0
                /\ progress' = [kind |-> "number", value |-> 0]
                /\ cond_status' = 0
                /\ stages' = Append(stages, "crawl")
                /\ Goto("get_alerts")
         ELSE /\ Raise("ConnectionError")
              /\ UNCHANGED << urls, clock, progress, cond_status, stages >>
    /\ UNCHANGED << cfgVars, pureVars, wzVars, stop_count, resultVars, reportVars >>

\* urls = zap.spider.results(scan_id); return urls
\* The loop's locals end with the call.
SpiderResults ==
    /\ pc = "spider_results"
    /\ ops' = ops \cup {"spider.results"}
    /\ \E outcome \in CallOutcomes :
         IF outcome = "ok"
           THEN /\ urls' \in UrlResults
                /\ clock' = 0
                /\ progress' = [kind |-> "number", value |-> 0]
                /\ cond_status' = 0
                /\ stages' = Append(stages, "crawl")
                /\ Goto("active_scan")
         ELSE /\ Raise("ConnectionError")
              /\ UNCHANGED << urls, clock, progress, cond_status, stages >>
    /\ UNCHANGED << cfgVars, pureVars, wzVars, stop_count, resultVars, reportVars >>

(***************************************************************************)
(* run_active_scan                                                         *)
(***************************************************************************)
\* active_scan_enabled ignoring the profile.
active_scan_always(stc) == TRUE

\* if not scan_type_config['active_scan']: return
active_scan_enabled(stc) == stc.active_scan

\* The skip, or scan_id = zap.ascan.scan(config.target_url)
ActiveScanStart ==
    /\ pc = "active_scan"
    /\ IF ~active_scan_enabled(scan_type_config)
         THEN /\ ops' = ops
              /\ stages' = Append(stages, "active_scan_skipped")
              /\ Goto("get_alerts")
       ELSE /\ ops' = ops \cup {"ascan.scan"}
            /\ stages' = stages
            /\ \E outcome \in CallOutcomes :
                 IF outcome = "ok" THEN Goto("ascan_cond")
                 ELSE Raise("ConnectionError")
    /\ UNCHANGED << cfgVars, pureVars, wzVars, spiderVars, resultVars, reportVars >>

\* while int(zap.ascan.status(scan_id)) < 100
ActiveScanCond ==
    /\ pc = "ascan_cond"
    /\ ops' = ops \cup {"ascan.status"}
    /\ \E reply \in StatusReplies :
         IF reply.kind # "number"
           THEN /\ Raise(status_error(reply))
                /\ UNCHANGED << stages, cond_status >>
         ELSE IF below_done(reply)
           THEN /\ Goto("ascan_body")
                /\ cond_status' = reply.value
                /\ UNCHANGED stages
         ELSE /\ stages' = Append(stages, "active_scan")
              /\ cond_status' = reply.value
              /\ Goto("get_alerts")
    /\ UNCHANGED << cfgVars, pureVars, wzVars, clock, progress, stop_count, urls,
                    resultVars, reportVars >>

\* progress = int(zap.ascan.status(scan_id)); ...; time.sleep(5)
ActiveScanBody ==
    /\ pc = "ascan_body"
    /\ \E reply \in StatusReplies :
         IF reply.kind # "number" THEN Raise(status_error(reply))
         ELSE Goto("ascan_cond")
    /\ UNCHANGED << cfgVars, pureVars, wzVars, ops, spiderVars, resultVars, reportVars,
                    stages >>

(***************************************************************************)
(* get_alerts, analyze_alerts, display_results                             *)
(***************************************************************************)
\* alerts = zap.core.alerts(baseurl=config.target_url)
GetAlerts ==
    /\ pc = "get_alerts"
    /\ ops' = ops \cup {"core.alerts"}
    /\ alerts_fetches' = alerts_fetches + 1
    /\ \E outcome \in CallOutcomes :
         IF outcome = "ok"
           THEN /\ alerts' \in AlertLists(MaxAlerts)
                /\ stages' = Append(stages, "alerts")
                /\ Goto("analyze")
         ELSE /\ Raise("ConnectionError")
              /\ UNCHANGED << alerts, stages >>
    /\ UNCHANGED << cfgVars, pureVars, wzVars, spiderVars, risk_counts, scan_passed,
                    reportVars >>

\* risk_counts = analyze_alerts(alerts)
AnalyzeAlerts ==
    /\ pc = "analyze"
    /\ LET r == analyze_alerts(alerts)
       IN  IF r.ok
             THEN /\ risk_counts' = r.counts
                  /\ stages' = Append(stages, "analyze")
                  /\ Goto("display")
           ELSE /\ Raise(r.error)
                /\ UNCHANGED << risk_counts, stages >>
    /\ UNCHANGED << cfgVars, pureVars, wzVars, ops, spiderVars, alerts_fetches, alerts,
                    scan_passed, reportVars >>

\* scan_passed = display_results(alerts, risk_counts, config)
DisplayResults ==
    /\ pc = "display"
    /\ LET r == display_results(alerts, risk_counts, config)
       IN  IF r.ok
             THEN /\ scan_passed' = r.passed
                  /\ stages' = Append(stages, "gate")
                  /\ Goto("save_reports")
           ELSE /\ Raise(r.error)
                /\ UNCHANGED << scan_passed, stages >>
    /\ UNCHANGED << cfgVars, pureVars, wzVars, ops, spiderVars, alerts_fetches, alerts,
                    risk_counts, reportVars >>

(***************************************************************************)
(* save_reports                                                            *)
(***************************************************************************)
\* after_write with the exception let through to main.
after_write_reraise(outcome, next) ==
    IF outcome = "ok" THEN Goto(next) ELSE Raise("OSError")

\* What a try block of save_reports does with the outcome of its body:
\* `except Exception` prints and the function goes on to `next`.
after_write(outcome, next) == Goto(next)

\* report_dir.mkdir(parents=True, exist_ok=True): outside every try block
SaveMkdir ==
    /\ pc = "save_reports"
    /\ \E outcome \in CallOutcomes :
         IF outcome = "ok" THEN Goto("save_html") ELSE Raise("OSError")
    /\ UNCHANGED << cfgVars, pureVars, wzVars, ops, spiderVars, resultVars, reportVars,
                    stages >>

\* try: html = zap.core.htmlreport(); open(...).write(html) except Exception
SaveHtml ==
    /\ pc = "save_html"
    /\ ops' = ops \cup {"core.htmlreport"}
    /\ writes_attempted' = writes_attempted \cup {"html"}
    /\ \E outcome \in CallOutcomes :
         /\ writes_failed' =
              IF outcome = "ok" THEN writes_failed ELSE writes_failed \cup {"html"}
         /\ after_write(outcome, "save_json")
    /\ UNCHANGED << cfgVars, pureVars, wzVars, spiderVars, resultVars, summary, stages >>

\* try: json.dump(alerts, open(...)) except Exception
SaveJson ==
    /\ pc = "save_json"
    /\ writes_attempted' = writes_attempted \cup {"json"}
    /\ \E outcome \in CallOutcomes :
         /\ writes_failed' =
              IF outcome = "ok" THEN writes_failed ELSE writes_failed \cup {"json"}
         /\ after_write(outcome, "save_summary")
    /\ UNCHANGED << cfgVars, pureVars, wzVars, ops, spiderVars, resultVars, summary, stages >>

\* try: summary = {...}; json.dump(summary, open(...)) except Exception
SaveSummary ==
    /\ pc = "save_summary"
    /\ writes_attempted' = writes_attempted \cup {"summary"}
    /\ LET built == build_summary(alerts, config, risk_counts, scan_passed)
       IN  \E outcome \in CallOutcomes :
             LET written == built.ok /\ outcome = "ok"
             IN  /\ summary' = IF written THEN json_dump(built.summary) ELSE summary
                 /\ writes_failed' =
                      IF written THEN writes_failed
                      ELSE writes_failed \cup {"summary"}
                 /\ after_write(IF written THEN "ok" ELSE "error", "main_exit")
    /\ stages' = Append(stages, "reports")
    /\ UNCHANGED << cfgVars, pureVars, wzVars, ops, spiderVars, resultVars >>

(***************************************************************************)
(* main: the exit code, and the interrupt.                                 *)
(***************************************************************************)
\* gate_exit_code with the two codes exchanged.
gate_exit_code_swapped(passed) ==
    IF passed THEN EXIT_GATE_FAILED ELSE EXIT_SUCCESS

\* sys.exit(0) if scan_passed else sys.exit(1)
gate_exit_code(passed) == IF passed THEN EXIT_SUCCESS ELSE EXIT_GATE_FAILED

MainExit ==
    /\ pc = "main_exit"
    /\ sys_exit(gate_exit_code(scan_passed))
    /\ UNCHANGED << cfgVars, pureVars, wzVars, ops, spiderVars, resultVars, reportVars,
                    stages >>

\* KeyboardInterrupt raised at the current statement of the try block; no
\* `except Exception` clause on the way catches it.
Interrupt ==
    /\ pc # "exited"
    /\ Raise("KeyboardInterrupt")
    /\ UNCHANGED << cfgVars, pureVars, wzVars, ops, spiderVars, resultVars, reportVars,
                    stages >>

(***************************************************************************)
(* The run.                                                                *)
(***************************************************************************)
ProgramNext ==
    \/ LoadConfig
    \/ WaitRequest
    \/ WaitSleep
    \/ WaitExhausted
    \/ AfterWait
    \/ ConnectToZap
    \/ AccessTarget
    \/ SpiderConfigure
    \/ SpiderStart
    \/ SpiderCond
    \/ SpiderBody
    \/ SpiderStop
    \/ SpiderResults
    \/ ActiveScanStart
    \/ ActiveScanCond
    \/ ActiveScanBody
    \/ GetAlerts
    \/ AnalyzeAlerts
    \/ DisplayResults
    \/ SaveMkdir
    \/ SaveHtml
    \/ SaveJson
    \/ SaveSummary
    \/ MainExit

Next == ProgramNext \/ Interrupt

Spec == Init /\ [][Next]_vars

FairSpec == Init /\ [][Next]_vars /\ WF_vars(ProgramNext)

(***************************************************************************)
(* check_thresholds on its own: every RiskCounts up to MaxCount per gated  *)
(* severity against every configuration of the thresholds below.           *)
(***************************************************************************)
ThresholdValues == {0, 1, DEFAULT_MAX_MEDIUM, DEFAULT_MAX_LOW}
GateConfigs ==
    {[valid |-> TRUE, target_url |-> "http://target", scan_type |-> "standard",
      zap_port |-> DEFAULT_PORT, max_high |-> h, max_medium |-> m,
      max_low |-> l] : h \in ThresholdValues, m \in ThresholdValues,
                       l \in ThresholdValues}
GateCounts ==
    {[High |-> h, Medium |-> m, Low |-> l, Informational |-> i] :
        h \in 0..MaxCount, m \in 0..MaxCount, l \in 0..MaxCount,
        i \in {0, MaxCount}}

InitGate ==
    /\ pc = "gate_input"
    /\ env = [ZAP_TARGET_URL |-> Text("http://target"), ZAP_SCAN_TYPE |-> Unset,
              ZAP_PORT |-> Unset, ZAP_MAX_HIGH |-> Unset,
              ZAP_MAX_MEDIUM |-> Unset, ZAP_MAX_LOW |-> Unset]
    /\ config \in GateConfigs
    /\ risk_counts \in GateCounts
    /\ alerts = << >>
    /\ InitLocals

ApplyGate ==
    /\ pc = "gate_input"
    /\ gate_result' = check_thresholds(risk_counts, config)
    /\ pc' = "gate_output"
    /\ UNCHANGED << cfgVars, exitCode, raised, wzVars, ops, spiderVars,
                    resultVars, reportVars, stages, analysis, extended,
                    analysis_plus, other_counts, gate_other >>

\* Informational counts to compare against
OtherInformational == {0, 1, MaxCount}

\* check_thresholds on the same counts with another Informational count
ApplyGateOther ==
    /\ pc = "gate_output"
    /\ \E i \in OtherInformational \ {risk_counts["Informational"]} :
         other_counts' = [risk_counts EXCEPT !["Informational"] = i]
    /\ gate_other' = check_thresholds(other_counts', config)
    /\ pc' = "gate_compared"
    /\ UNCHANGED << cfgVars, exitCode, raised, wzVars, ops, spiderVars,
                    resultVars, reportVars, stages, analysis, gate_result,
                    extended, analysis_plus >>

NextGate == ApplyGate \/ ApplyGateOther

GateSpec == InitGate /\ [][NextGate]_vars

(***************************************************************************)
(* analyze_alerts on its own: every finding list of at most MaxPureAlerts  *)
(* findings.                                                               *)
(***************************************************************************)
InitAnalyze ==
    /\ pc = "analyze_input"
    /\ env = [ZAP_TARGET_URL |-> Text("http://target"), ZAP_SCAN_TYPE |-> Unset,
              ZAP_PORT |-> Unset, ZAP_MAX_HIGH |-> Unset,
              ZAP_MAX_MEDIUM |-> Unset, ZAP_MAX_LOW |-> Unset]
    /\ config = NoConfig
    /\ risk_counts = ZeroCounts
    /\ alerts \in AlertLists(MaxPureAlerts)
    /\ InitLocals

ApplyAnalyze ==
    /\ pc = "analyze_input"
    /\ analysis' = analyze_alerts(alerts)
    /\ pc' = "analyze_output"
    /\ UNCHANGED << cfgVars, exitCode, raised, wzVars, ops, spiderVars,
                    resultVars, reportVars, stages, gate_result, extended,
                    analysis_plus, other_counts, gate_other >>

\* alerts with x put in at position pos
InsertAt(seq, pos, x) ==
    SubSeq(seq, 1, pos - 1) \o << x >> \o SubSeq(seq, pos, Len(seq))

\* analyze_alerts on the same list with one finding added that has no
\* 'risk' key, at any position
ApplyAnalyzeExtended ==
    /\ pc = "analyze_output"
    /\ \E pos \in 1..(Len(alerts) + 1), complete \in BOOLEAN :
         extended' = InsertAt(alerts, pos, Finding(Absent, complete))
    /\ analysis_plus' = analyze_alerts(extended')
    /\ pc' = "analyze_compared"
    /\ UNCHANGED << cfgVars, exitCode, raised, wzVars, ops, spiderVars,
                    resultVars, reportVars, stages, analysis, gate_result,
                    other_counts, gate_other >>

NextAnalyze == ApplyAnalyze \/ ApplyAnalyzeExtended

AnalyzeSpec == InitAnalyze /\ [][NextAnalyze]_vars

(***************************************************************************)
(* Properties.                                                             *)
(***************************************************************************)
DefaultThresholds(cfg) ==
    /\ cfg.max_high = DEFAULT_MAX_HIGH
    /\ cfg.max_medium = DEFAULT_MAX_MEDIUM
    /\ cfg.max_low = DEFAULT_MAX_LOW

\* C1: for every RiskCounts and every configuration of non-negative
\* thresholds, check_thresholds returns passed = true exactly when
\* High <= max_high and Medium <= max_medium and Low <= max_low; with the
\* thresholds 0/5/999 the counts High 0, Medium 3, Low 10 pass and the counts
\* High 1, Medium 0, Low 0 fail.
C1_GateExact ==
    pc = "gate_output" =>
        /\ gate_result.passed =
             (/\ risk_counts["High"] <= config.max_high
              /\ risk_counts["Medium"] <= config.max_medium
              /\ risk_counts["Low"] <= config.max_low)
        /\ (/\ DefaultThresholds(config)
            /\ risk_counts["High"] = 0
            /\ risk_counts["Medium"] = 3
            /\ risk_counts["Low"] = 10) => gate_result.passed
        /\ (/\ DefaultThresholds(config)
            /\ risk_counts["High"] = 1
            /\ risk_counts["Medium"] = 0
            /\ risk_counts["Low"] = 0) => ~gate_result.passed

\* C1 witness: the gate has been applied to High 1, Medium 0, Low 0 under the
\* thresholds 0/5/999 and has failed.
C1_HighExceeded ==
    /\ pc = "gate_output"
    /\ DefaultThresholds(config)
    /\ risk_counts["High"] = 1
    /\ risk_counts["Medium"] = 0
    /\ risk_counts["Low"] = 0
    /\ ~gate_result.passed

RECURSIVE SumCounts(_, _)
SumCounts(counts, keys) ==
    IF keys = {} THEN 0
    ELSE LET k == CHOOSE x \in keys : TRUE
         IN  counts[k] + SumCounts(counts, keys \ {k})

\* C5: analyze_alerts is total: for every finding list, whatever each
\* finding's severity field holds, it does not fail and returns counts over
\* exactly the four buckets whose sum is the number of findings.
C5_AnalyzeTotal ==
    pc = "analyze_output" =>
        /\ analysis.ok
        /\ DOMAIN analysis.counts = Buckets
        /\ SumCounts(analysis.counts, Buckets) = Len(alerts)

StagesWith(active) ==
    << "config", "readiness", "connect", "access", "crawl", active, "alerts",
       "analyze", "gate", "reports" >>

\* Every stage has run, in order, the active scan as the profile says.
EveryStageRan ==
    /\ config.valid
    /\ stages = StagesWith(IF TYPES[config.scan_type].active_scan
                             THEN "active_scan" ELSE "active_scan_skipped")

\* The threshold gate's verdict on the finding list of this run.
GateVerdict == check_thresholds(analyze_alerts(alerts).counts, config).passed

\* C2 (as amended): whenever the process has terminated its exit code is in
\* {0, 1, 2, 130}; exit 0 happens only after every stage has run and the gate
\* passed, exit 1 only after every stage has run and the gate failed.
C2_ExitCodes ==
    /\ (pc = "exited") = (exitCode # NotExited)
    /\ pc = "exited" =>
         exitCode \in {EXIT_SUCCESS, EXIT_GATE_FAILED, EXIT_ERROR, EXIT_INTERRUPT}
    /\ exitCode \in {EXIT_SUCCESS, EXIT_GATE_FAILED} =>
         /\ EveryStageRan
         /\ writes_attempted = ReportFiles
         /\ analyze_alerts(alerts).ok
         /\ (exitCode = EXIT_SUCCESS) = GateVerdict

\* C2 witness: a run that went through every stage and ended with the gate's
\* failure code.
C2_GateFailedExit ==
    /\ pc = "exited"
    /\ exitCode = EXIT_GATE_FAILED
    /\ EveryStageRan
    /\ ~GateVerdict

\* C2 as stated: the process always terminates, with an exit code as above.
C2_AlwaysTerminates == <>(pc = "exited") /\ []C2_ExitCodes

\* C3: if no readiness request succeeds within the budget of 30 attempts,
\* wait_for_zap makes exactly 30 attempts and reports unavailability exactly
\* once (returns False), the process exits with code 2, and no scanner
\* operation and no report write is ever issued.
C3_Unavailable ==
    /\ zap_ready # "ready" => (ops = {} /\ writes_attempted = {})
    /\ unavailable_reports <= 1
    /\ pc = "wz_exhausted" => (wz_requests = ATTEMPTS /\ ~(zap_ready = "ready"))
    /\ zap_ready = "unavailable" =>
         /\ wz_requests = ATTEMPTS
         /\ wz_sleeps = ATTEMPTS
         /\ unavailable_reports = 1
         /\ pc \in {"wz_returned", "exited"}
         /\ (pc = "exited" /\ raised.type # "KeyboardInterrupt") =>
              (exitCode = EXIT_ERROR /\ raised.type = "SystemExit")

\* C3 witness: the budget was exhausted and the process has exited with 2.
C3_ExhaustedExit ==
    /\ pc = "exited"
    /\ zap_ready = "unavailable"
    /\ wz_requests = ATTEMPTS
    /\ exitCode = EXIT_ERROR
    /\ ops = {}

PollingSteps == {"spider_cond", "spider_body", "ascan_cond", "ascan_body"}

\* C4: a single failed progress request during crawl polling or active-scan
\* polling is recovered and retried on the next poll tick: it never ends the
\* run, which goes on to the gate and exits with the gate's code.
C4_PollFailureRecovered ==
    (/\ pc = "exited"
     /\ raised.type = "ConnectionError"
     /\ raised.at \in PollingSteps) =>
        exitCode \in {EXIT_SUCCESS, EXIT_GATE_FAILED}

\* C6: a limit of 0 in the scan-type profile disables that limit: with
\* spider_max_duration 0 no stop request is ever issued, however much time
\* elapses and whatever progress is reported; with spider_max_depth 0 the
\* depth option is never set on the scanner.
C6_ZeroDisablesLimit ==
    config.valid =>
        /\ scan_type_config.spider_max_duration = 0 =>
             /\ stop_count = 0
             /\ "spider.stop" \notin ops
             /\ pc # "spider_stop"
        /\ scan_type_config.spider_max_depth = 0 =>
             "spider.set_option_max_depth" \notin ops

\* C6 witness: an unlimited crawl still polling, below 100, with the clock as
\* far as the model takes it and no stop request issued.
C6_UnlimitedStillPolling ==
    /\ config.valid
    /\ scan_type_config.spider_max_duration = 0
    /\ scan_type_config.spider_max_depth = 0
    /\ pc = "spider_cond"
    /\ clock = MaxClock
    /\ progress.kind = "number"
    /\ progress.value < DONE
    /\ stop_count = 0

\* The run ended on a fault of its surroundings: the user's interrupt, a
\* request that raised, text where a number was due, a directory that could
\* not be made.
EnvironmentFault ==
    raised.type \in {"KeyboardInterrupt", "ConnectionError", "ValueError", "OSError"}

\* C7: when a nonzero maximum crawl duration is exceeded while progress is
\* below 100 the driver issues a stop request, leaves polling and still
\* returns the crawl results, and the run is not failed: it goes on to the
\* active scan step, alert retrieval and gating, and the exit code is the
\* gate's (0 or 1).
C7_TimeoutNotFailure ==
    /\ pc = "spider_stop" =>
         /\ max_duration(scan_type_config) > 0
         /\ clock > max_duration(scan_type_config)
    /\ (stop_count > 0 /\ pc = "exited" /\ ~EnvironmentFault) =>
         /\ "crawl" \in {stages[i] : i \in DOMAIN stages}
         /\ exitCode \in {EXIT_SUCCESS, EXIT_GATE_FAILED}

AscanSteps == {"ascan_cond", "ascan_body"}

\* C8: with scan type quick the active scan phase is skipped entirely: no
\* active-scan start request and no active-scan status request is ever
\* issued, and the pass/fail result is that of the gate on the alerts
\* fetched, once, after the crawl.
C8_QuickSkipsActiveScan ==
    (config.valid /\ config.scan_type = "quick") =>
        /\ "ascan.scan" \notin ops
        /\ "ascan.status" \notin ops
        /\ pc \notin AscanSteps
        /\ "active_scan" \notin {stages[i] : i \in DOMAIN stages}
        /\ "gate" \in {stages[i] : i \in DOMAIN stages} =>
             /\ alerts_fetches = 1
             /\ scan_passed = GateVerdict
        /\ exitCode \in {EXIT_SUCCESS, EXIT_GATE_FAILED} =>
             exitCode = gate_exit_code(GateVerdict)

\* C8 witness: a quick run that has exited with the gate's success code.
C8_QuickRunPassed ==
    /\ pc = "exited"
    /\ config.valid
    /\ config.scan_type = "quick"
    /\ exitCode = EXIT_SUCCESS
    /\ "ascan.scan" \notin ops

\* C9: a failure while persisting any of the three output files does not
\* abort the run and does not change the outcome: whichever writes fail, all
\* three writes are attempted and the exit code is the gate's result.
C9_WriteFailuresTolerated ==
    /\ writes_failed \subseteq writes_attempted
    /\ pc = "main_exit" => writes_attempted = ReportFiles
    /\ (/\ pc = "exited"
        /\ writes_attempted # {}
        /\ raised.type # "KeyboardInterrupt") =>
           /\ writes_attempted = ReportFiles
           /\ exitCode = (IF GateVerdict THEN EXIT_SUCCESS ELSE EXIT_GATE_FAILED)

\* C9 witness: all three writes failed and the run exited with code 0.
C9_AllWritesFailed ==
    /\ pc = "exited"
    /\ writes_failed = ReportFiles
    /\ exitCode = EXIT_SUCCESS

\* C10: readiness polling succeeds on the first response with HTTP 200: once
\* a response has answered 200, wait_for_zap has returned success, after
\* exactly that many requests, with no further request and no further sleep.
C10_FirstOkSucceeds ==
    wz_got200 =>
        /\ zap_ready = "ready"
        /\ wz_requests = attempt + 1
        /\ wz_sleeps = attempt

BadThreshold(value) == value.isset /\ (~value.numeric \/ value.val < 0)

\* The environment holds a configuration error: the target URL is missing
\* or empty or has no http:// or https:// prefix, the scan type is none of
\* the three, a threshold is negative or no integer, the port is no integer.
ConfigError(e) ==
    \/ ~e.ZAP_TARGET_URL.isset
    \/ e.ZAP_TARGET_URL.text = ""
    \/ ~startswith_http(e.ZAP_TARGET_URL.text)
    \/ (e.ZAP_SCAN_TYPE.isset
        /\ e.ZAP_SCAN_TYPE.text \notin {"quick", "standard", "full"})
    \/ BadThreshold(e.ZAP_MAX_HIGH)
    \/ BadThreshold(e.ZAP_MAX_MEDIUM)
    \/ BadThreshold(e.ZAP_MAX_LOW)
    \/ (e.ZAP_PORT.isset /\ ~e.ZAP_PORT.numeric)

\* C11: every configuration error makes the process exit with code 2 before
\* any network activity: no readiness request and no scanner request is
\* issued.
C11_ConfigErrorsExit ==
    ConfigError(env) =>
        /\ ~config.valid
        /\ wz_requests = 0
        /\ ops = {}
        /\ pc \in {"start", "exited"}
        /\ (pc = "exited" /\ raised.type # "KeyboardInterrupt") =>
             exitCode = EXIT_ERROR

\* C11 witness: a run whose only error is a threshold that is no integer
\* has exited with 2 without a request.
C11_TextThresholdExit ==
    /\ pc = "exited"
    /\ exitCode = EXIT_ERROR
    /\ env.ZAP_TARGET_URL = Text("https://target")
    /\ env.ZAP_SCAN_TYPE = Text("quick")
    /\ env.ZAP_PORT = Unset
    /\ env.ZAP_MAX_HIGH = Unset
    /\ env.ZAP_MAX_MEDIUM = Unset
    /\ env.ZAP_MAX_LOW = Text("many")
    /\ wz_requests = 0
    /\ ops = {}

\* C12: a user interrupt arriving at any point of the pipeline is caught at
\* the top level and makes the process exit with code 130, never with 0, 1
\* or 2; it can arrive at every step short of the exit.
C12_InterruptExit ==
    /\ pc # "exited" => ENABLED Interrupt
    /\ raised.type = "KeyboardInterrupt" =>
         /\ pc = "exited"
         /\ exitCode = EXIT_INTERRUPT

\* C12 witness: an interrupt during the sleep of a readiness attempt, after
\* failed attempts, has ended the run with 130.
C12_InterruptedInSleep ==
    /\ pc = "exited"
    /\ raised = [type |-> "KeyboardInterrupt", at |-> "wz_sleep"]
    /\ wz_requests > 1
    /\ exitCode = EXIT_INTERRUPT

\* C13: a finding with no severity field is counted as Informational: adding
\* one to any finding list raises the Informational count by one, leaves the
\* High, Medium and Low counts as they were, and leaves the threshold gate's
\* result as it was under every configuration (a list analyze_alerts fails
\* on, it fails on the same way with the finding added).
C13_UntaggedIsInformational ==
    pc = "analyze_compared" =>
        /\ Len(extended) = Len(alerts) + 1
        /\ analysis_plus.ok = analysis.ok
        /\ ~analysis.ok => analysis_plus = analysis
        /\ analysis.ok =>
             /\ analysis_plus.counts["Informational"] =
                  analysis.counts["Informational"] + 1
             /\ \A b \in {"High", "Medium", "Low"} :
                  analysis_plus.counts[b] = analysis.counts[b]
             /\ \A cfg \in GateConfigs :
                  check_thresholds(analysis_plus.counts, cfg) =
                    check_thresholds(analysis.counts, cfg)

\* C13 witness: an untagged finding was added to a list holding a High and a
\* Low finding, and both analyses are there.
C13_UntaggedAdded ==
    /\ pc = "analyze_compared"
    /\ analysis.ok
    /\ analysis.counts["High"] = 1
    /\ analysis.counts["Low"] = 1
    /\ analysis_plus.ok
    /\ analysis_plus.counts["Informational"] = 1

\* C14: informational findings are never gated: for two RiskCounts that
\* agree on High, Medium and Low and differ in the Informational count alone
\* check_thresholds returns the same overall result and the same three
\* per-severity checks, and there is no check for Informational.
C14_InformationalNotGated ==
    pc = "gate_compared" =>
        /\ other_counts["Informational"] # risk_counts["Informational"]
        /\ \A b \in {"High", "Medium", "Low"} : other_counts[b] = risk_counts[b]
        /\ gate_other.passed = gate_result.passed
        /\ gate_other.checks = gate_result.checks
        /\ << gate_result.checks[1].level, gate_result.checks[2].level,
              gate_result.checks[3].level >> = << "High", "Medium", "Low" >>
        /\ Len(gate_result.checks) = 3
        /\ Len(gate_other.checks) = 3

\* C14 witness: counts with Informational above every threshold of the
\* configuration have passed the gate, as have the same counts with none.
C14_ManyInformationalPass ==
    /\ pc = "gate_compared"
    /\ risk_counts["Informational"] = MaxCount
    /\ other_counts["Informational"] = 0
    /\ config.max_high = 0
    /\ config.max_medium = 0
    /\ config.max_low = 0
    /\ gate_result.passed
    /\ gate_other.passed

\* The stages that have been completed
StagesDone == {stages[i] : i \in DOMAIN stages}

\* C15: once the findings have been retrieved a malformed finding does not
\* abort the run: for any finding list whose severities analyze_alerts
\* accepts, High findings lacking a name, URL or description included, the
\* run completes gating and reporting and exits with the gate's code (0 or
\* 1), not with 2.
C15_MalformedTolerated ==
    (/\ pc = "exited"
     /\ "alerts" \in StagesDone
     /\ analyze_alerts(alerts).ok
     /\ ~EnvironmentFault) =>
        /\ "gate" \in StagesDone
        /\ "reports" \in StagesDone
        /\ exitCode = gate_exit_code(GateVerdict)

IsPrefix(short, long) ==
    /\ Len(short) <= Len(long)
    /\ short = SubSeq(long, 1, Len(short))

SpiderSteps ==
    {"spider_configure", "spider_start", "spider_cond", "spider_body",
     "spider_stop", "spider_results"}

\* C16: the stages of a run occur in the fixed order configuration,
\* readiness, connect, target access, crawl, active scan (run or skipped),
\* alert retrieval, aggregation, gating, reporting, exit, as far as the run
\* gets: the active scan is never started before the crawl driver has left
\* polling and returned; the alerts are fetched at most once, only after the
\* crawl has ended and the active scan has completed or been skipped, and
\* exactly once in every run that reaches the exit codes of the gate.
C16_StageOrder ==
    /\ ~config.valid => stages = << >>
    /\ config.valid =>
         IsPrefix(stages, StagesWith(IF TYPES[config.scan_type].active_scan
                                       THEN "active_scan"
                                     ELSE "active_scan_skipped"))
    /\ ops # {} => {"config", "readiness", "connect"} \subseteq StagesDone
    /\ "spider.scan" \in ops => "access" \in StagesDone
    /\ pc \in SpiderSteps =>
         /\ "crawl" \notin StagesDone
         /\ "ascan.scan" \notin ops
         /\ alerts_fetches = 0
    /\ "ascan.scan" \in ops => "crawl" \in StagesDone
    /\ pc \in AscanSteps \cup {"active_scan"} =>
         /\ "crawl" \in StagesDone
         /\ alerts_fetches = 0
    /\ alerts_fetches <= 1
    /\ (alerts_fetches = 1) = ("core.alerts" \in ops)
    /\ alerts_fetches = 1 =>
         /\ "crawl" \in StagesDone
         /\ \/ "active_scan" \in StagesDone /\ "ascan.status" \in ops
            \/ "active_scan_skipped" \in StagesDone /\ "ascan.scan" \notin ops
    /\ "analyze" \in StagesDone => alerts_fetches = 1
    /\ writes_attempted # {} => "gate" \in StagesDone
    /\ exitCode \in {EXIT_SUCCESS, EXIT_GATE_FAILED} =>
         (EveryStageRan /\ alerts_fetches = 1)

\* C16 witness: a run whose crawl was stopped on its duration and whose
\* active scan completed has fetched the alerts once and left with the
\* gate's code.
C16_FullRunInOrder ==
    /\ pc = "exited"
    /\ exitCode = EXIT_SUCCESS
    /\ stages = StagesWith("active_scan")
    /\ stop_count = 1
    /\ "ascan.status" \in ops
    /\ alerts_fetches = 1

\* What a reader of the summary file gets back for the two fields
json_load_risk_counts(file) ==
    [b \in DOMAIN file.risk_counts |-> file.risk_counts[b].number]

json_load_passed(file) == file.passed = "true"

\* C17: the risk_counts and passed values in the JSON run summary are
\* exactly the values analyze_alerts and check_thresholds computed for the
\* finding list of the run, and the passed value in the summary is the one
\* that selects exit code 0 or 1.
C17_SummaryMatches ==
    summary.written =>
        /\ analyze_alerts(alerts).ok
        /\ json_load_risk_counts(summary) = analyze_alerts(alerts).counts
        /\ json_load_risk_counts(summary) = risk_counts
        /\ json_load_passed(summary) = GateVerdict
        /\ json_load_passed(summary) = scan_passed
        /\ summary.passed \in {"true", "false"}
        /\ exitCode \in {EXIT_SUCCESS, EXIT_GATE_FAILED} =>
             exitCode = gate_exit_code(json_load_passed(summary))
        /\ (pc = "exited" /\ raised.type = "SystemExit") =>
             exitCode = gate_exit_code(json_load_passed(summary))

\* C17 witness: a run with one High finding wrote the summary, with that
\* count and passed false in it, and left with code 1.
C17_FailedSummaryWritten ==
    /\ pc = "exited"
    /\ summary.written
    /\ json_load_risk_counts(summary)["High"] = 1
    /\ ~json_load_passed(summary)
    /\ exitCode = EXIT_GATE_FAILED

\* C18: a stop request is issued at most once per crawl job, and never for a
\* job whose most recent progress reading in that iteration was already 100,
\* though the progress may change between the two status reads of an
\* iteration.
C18_StopOnlyBelowDone ==
    /\ stop_count <= 1
    /\ pc = "spider_stop" =>
         ~(progress.kind = "number" /\ progress.value >= DONE)

CrawlPolling == {"spider_cond", "spider_body"}

\* Crawl polling under a nonzero maximum duration, and under none
LimitedCrawlPolling ==
    pc \in CrawlPolling /\ max_duration(scan_type_config) > 0

UnlimitedCrawlPolling ==
    pc \in CrawlPolling /\ max_duration(scan_type_config) = 0

\* The crawl has ended: Completed, or TimedOut with the stop request due
CrawlEnded == pc \in {"spider_stop", "spider_results"}

\* A status request did not return a number, or the user interrupted
PollingFault ==
    /\ pc = "exited"
    /\ raised.at \in PollingSteps
    /\ EnvironmentFault

\* C19: as long as every status request returns and the clock advances with
\* each sleep, crawl polling with a nonzero maximum duration always
\* eventually ends, Completed or TimedOut, whatever progress is read;
\* active-scan polling, and crawl polling with duration 0, leave their loop
\* for the next step only when the loop condition has read a progress of at
\* least 100 (the one other way out is an exception that ends the run).
C19_PollingExits ==
    /\ LimitedCrawlPolling ~> (CrawlEnded \/ PollingFault)
    /\ [][/\ (pc \in AscanSteps /\ pc' \notin AscanSteps) =>
               \/ pc' = "get_alerts" /\ cond_status' >= DONE
               \/ pc' = "exited" /\ raised'.at \in AscanSteps
          /\ (UnlimitedCrawlPolling /\ pc' \notin CrawlPolling) =>
               \/ pc' = "spider_results" /\ cond_status' >= DONE
               \/ pc' = "exited" /\ raised'.at \in CrawlPolling]_vars

\* C19 witness: a crawl has been stopped on its duration and left polling
\* with its last loop-condition reading still below 100.
C19_TimedOutBelowDone ==
    /\ pc = "spider_results"
    /\ stop_count = 1
    /\ max_duration(scan_type_config) > 0
    /\ cond_status < DONE

====
